---- MODULE Spec2Model ----
(***************************************************************************)
(* 3-Slot-Finality reference node: checkpoint justification (ffg.rs),      *)
(* RLMD-GHOST fork choice (fork_choice.rs) and the per-slot validator      *)
(* state machine (node.rs).                                                *)
(*                                                                         *)
(* Every fallible evaluation returns a record with a "status" field:       *)
(*   "ok"       the call returned,                                         *)
(*   "panic"    an unwrap()/expect() on a missing block aborted it,        *)
(*   "overflow" unbounded recursion of is_justified exhausted the stack,   *)
(*   "hang"     a loop over a cyclic parent chain never ends.              *)
(***************************************************************************)
EXTENDS Integers, Sequences, FiniteSets, TLC

VARIABLES
    node,    \* node runs: the Node
    process, \* node runs: "running", or the way the process aborted
    ops,     \* node runs: the number of operations called so far
    jview,   \* justification runs: the view being queried
    jcp,     \* justification runs: the checkpoint being queried
    jres,    \* justification runs: the last evaluation, <<>> before the first
    fview,   \* fork-choice runs: the view being queried
    fres,    \* fork-choice runs: the last evaluation, <<>> before the first
    nodes,   \* honest runs: the Vec<Node> of main
    hslot,   \* honest runs: the slot being simulated
    phase,   \* honest runs: the phase of simulate_slot being executed
    turn,    \* honest runs: the index of the node the phase's loop is at
    pending, \* honest runs: the Proposal of the slot
    cast,    \* honest runs: the votes of the slot collected so far
    outcome, \* honest runs: "running", or the way the process aborted
    reported \* honest runs: the checkpoints main has printed as justified

jvars == <<jview, jcp, jres>>

fvars == <<fview, fres>>

nvars == <<node, process, ops>>

hvars == <<nodes, hslot, phase, turn, pending, cast, outcome, reported>>

vars == <<nvars, jvars, fvars, hvars>>

\* ------------------------------------------------------------------------
\* constants.rs and the two hard-wired validator counts
\* ------------------------------------------------------------------------
KAPPA == 4

ETA == 5

\* `let n = 100` of ffg::is_justified
n_justification == 100

\* `let n = 100` of Node::fast_confirm
n_fast_confirm == 100

\* ------------------------------------------------------------------------
\* types.rs
\* ------------------------------------------------------------------------
GENESIS_HASH == "genesis_hash"

NULL_HASH == "null"

Block(hash, parent_hash, slot, proposer_id) ==
    [hash |-> hash, parent_hash |-> parent_hash, slot |-> slot,
     proposer_id |-> proposer_id, transactions |-> <<>>]

genesis == Block(GENESIS_HASH, NULL_HASH, 0, 0)

Checkpoint(block_hash, slot) == [block_hash |-> block_hash, slot |-> slot]

GenesisCheckpoint == Checkpoint(GENESIS_HASH, 0)

Vote(chain_head_hash, source, target, slot, validator_id) ==
    [chain_head_hash |-> chain_head_hash, source |-> source, target |-> target,
     slot |-> slot, validator_id |-> validator_id]

\* View: blocks is a map hash -> Block (a function on the set of known
\* hashes), votes is the Vec<Vote> in arrival order.
View(blocks, votes) == [blocks |-> blocks, votes |-> votes]

\* HashMap helpers: a map is a function whose DOMAIN is its key set.
MapPut(map, k, v) == (k :> v) @@ map

\* entry(k).or_insert(v): first writer wins
MapOrInsert(map, k, v) == IF k \in DOMAIN map THEN map ELSE MapPut(map, k, v)

EmptyMap == [x \in {} |-> TRUE]

Ok(res) == [status |-> "ok", res |-> res]

Fail(status) == [status |-> status, res |-> FALSE]

\* Block::is_ancestor_of, the while loop from `current_hash`; `visited` are
\* the hashes the walk has already left (a repeat means the loop never ends).
RECURSIVE ancestor_walk(_, _, _, _)
ancestor_walk(self, current_hash, view, visited) ==
    IF current_hash = NULL_HASH THEN Ok(FALSE)
    ELSE IF current_hash = self.hash THEN Ok(TRUE)
    ELSE IF current_hash \notin DOMAIN view.blocks THEN Fail("panic")
    ELSE IF current_hash \in visited THEN Fail("hang")
    ELSE ancestor_walk(self, view.blocks[current_hash].parent_hash, view,
                       visited \cup {current_hash})

is_ancestor_of(self, other, view) == ancestor_walk(self, other.parent_hash, view, {})

\* ------------------------------------------------------------------------
\* ffg.rs
\* ------------------------------------------------------------------------
JOk(res, cache) == [status |-> "ok", res |-> res, cache |-> cache]

JFail(status, cache) == [status |-> status, res |-> FALSE, cache |-> cache]

\* the base case with the slot of the first proposal instead of slot 0
is_genesis_checkpoint_slot_one(checkpoint) ==
    checkpoint.block_hash = GENESIS_HASH /\ checkpoint.slot = 1

\* ffg.rs:20 "Genesis is always justified"
is_genesis_checkpoint(checkpoint) ==
    checkpoint.block_hash = GENESIS_HASH /\ checkpoint.slot = 0

\* ffg.rs:45 `len() as u64 > (2 * n / 3)`
is_supermajority(count) == count > (2 * n_justification) \div 3

\* `first && second` on two fallible tests: second is evaluated only when
\* first returned true
and_then(first, second) ==
    IF first.status # "ok" \/ ~first.res THEN first ELSE second

\* ffg.rs:31-39, the body of `if is_justified(&vote.source, ..)`: the three
\* unwrap()s, then the ancestry test `source <= checkpoint <= target` with
\* the short-circuit &&.  res = TRUE iff the voter is inserted.
vote_supports(checkpoint, vote, view) ==
    IF \/ vote.source.block_hash \notin DOMAIN view.blocks
       \/ vote.target.block_hash \notin DOMAIN view.blocks
       \/ checkpoint.block_hash \notin DOMAIN view.blocks
    THEN Fail("panic")
    ELSE LET source_block == view.blocks[vote.source.block_hash]
             target_block == view.blocks[vote.target.block_hash]
             checkpoint_block == view.blocks[checkpoint.block_hash]
         IN  and_then(is_ancestor_of(source_block, checkpoint_block, view),
                      is_ancestor_of(checkpoint_block, target_block, view))

\* is_justified(checkpoint, view, justification_cache).  `active` is the
\* call stack: the checkpoints whose evaluation is in progress.  None of
\* them is cached yet, so a nested call for one of them repeats the same
\* path for ever and the recursion overflows the stack.
RECURSIVE is_justified(_, _, _, _)
\* ffg.rs:31-39 once the three blocks were looked up and the ancestry
\* tested (sup): the voter is inserted, or the call has aborted
voter_inserted(vote, acc, src, sup) ==
    IF sup.status # "ok"
    THEN [acc EXCEPT !.status = sup.status, !.cache = src.cache]
    ELSE [acc EXCEPT !.cache = src.cache,
                     !.voters = IF sup.res THEN @ \cup {vote.validator_id} ELSE @]

\* ffg.rs:30-40 once is_justified(&vote.source, ..) has given src
source_checked(checkpoint, view, vote, acc, src) ==
    IF src.status # "ok" THEN [acc EXCEPT !.status = src.status, !.cache = src.cache]
    ELSE IF ~src.res THEN [acc EXCEPT !.cache = src.cache]
    ELSE voter_inserted(vote, acc, src, vote_supports(checkpoint, vote, view))

\* ffg.rs:27-41, one pass of the body of `for vote in &view.votes`; acc is
\* the loop state (supermajority_voters and the cache), left as it is once
\* the call has aborted.
justified_step(checkpoint, view, vote, acc, active) ==
    IF acc.status # "ok" \/ vote.target.slot # checkpoint.slot THEN acc
    ELSE source_checked(checkpoint, view, vote, acc,
                        is_justified(vote.source, view, acc.cache, active))

\* ffg.rs:26, the loop over view.votes[lo..hi] in order, ended by an abort
\* (the range is halved, the left half giving the loop state of the right
\* one, so that the evaluation depth stays logarithmic in its length).
RECURSIVE justified_votes(_, _, _, _, _, _)
justified_votes(checkpoint, view, lo, hi, acc, active) ==
    IF acc.status # "ok" \/ lo > hi THEN acc
    ELSE IF lo = hi THEN justified_step(checkpoint, view, view.votes[lo], acc, active)
    ELSE justified_votes(checkpoint, view, (lo + hi) \div 2 + 1, hi,
             justified_votes(checkpoint, view, lo, (lo + hi) \div 2, acc, active),
             active)

\* ffg.rs:44-47 after the loop
justified_result(checkpoint, loop) ==
    IF loop.status # "ok" THEN JFail(loop.status, loop.cache)
    ELSE LET result == is_supermajority(Cardinality(loop.voters))
         IN  JOk(result, MapPut(loop.cache, checkpoint, result))

is_justified(checkpoint, view, justification_cache, active) ==
    IF checkpoint \in DOMAIN justification_cache
    THEN JOk(justification_cache[checkpoint], justification_cache)
    ELSE IF is_genesis_checkpoint(checkpoint)
    THEN JOk(TRUE, MapPut(justification_cache, checkpoint, TRUE))
    ELSE IF checkpoint \in active
    THEN JFail("overflow", justification_cache)
    ELSE justified_result(checkpoint,
             justified_votes(checkpoint, view, 1, Len(view.votes),
                 [status |-> "ok", voters |-> {}, cache |-> justification_cache],
                 active \cup {checkpoint}))

\* impl Ord for Checkpoint: by slot only
checkpoint_le(a, b) == a.slot <= b.slot

\* ffg.rs:58-59 for one source cp, once is_justified(cp, ..) has given j:
\* cp is kept when justified, and Iterator::max keeps the LAST of several
\* maximal elements.  acc.best is <<>> while nothing was kept.
keep_greatest(acc, cp, j) ==
    IF j.status # "ok" THEN [acc EXCEPT !.status = j.status, !.cache = j.cache]
    ELSE IF j.res /\ (acc.best = <<>> \/ checkpoint_le(acc.best[1], cp))
    THEN [acc EXCEPT !.best = <<cp>>, !.cache = j.cache]
    ELSE [acc EXCEPT !.cache = j.cache]

\* ffg.rs:57-59, one element of map/filter/max
greatest_justified_step(view, vote, acc) ==
    IF acc.status # "ok" THEN acc
    ELSE keep_greatest(acc, vote.source, is_justified(vote.source, view, acc.cache, {}))

\* ffg.rs:56, view.votes.iter() over votes[lo..hi] in order
RECURSIVE greatest_justified_scan(_, _, _, _)
greatest_justified_scan(view, lo, hi, acc) ==
    IF acc.status # "ok" \/ lo > hi THEN acc
    ELSE IF lo = hi THEN greatest_justified_step(view, view.votes[lo], acc)
    ELSE greatest_justified_scan(view, (lo + hi) \div 2 + 1, hi,
             greatest_justified_scan(view, lo, (lo + hi) \div 2, acc))

\* ffg.rs:60, unwrap_or gives the genesis checkpoint when no source was kept
unwrap_or_genesis(scan) ==
    [status |-> scan.status,
     res |-> IF scan.best = <<>> THEN GenesisCheckpoint ELSE scan.best[1],
     cache |-> scan.cache]

\* greatest_justified_checkpoint(view, justification_cache)
greatest_justified_checkpoint(view, justification_cache) ==
    unwrap_or_genesis(
        greatest_justified_scan(view, 1, Len(view.votes),
            [status |-> "ok", best |-> <<>>, cache |-> justification_cache]))

\* ------------------------------------------------------------------------
\* fork_choice.rs
\* ------------------------------------------------------------------------
\* u64::saturating_sub
saturating_sub(a, b) == IF a >= b THEN a - b ELSE 0

\* filter_step with the slot test of fork_choice.rs:22 written `>=`: a later
\* vote of the same slot replaces the latest one and no equivocation is seen
filter_step_last_wins(acc, vote, current_slot) ==
    IF vote.slot < saturating_sub(current_slot, ETA) THEN acc
    ELSE IF vote.validator_id \in DOMAIN acc.latest_votes
    THEN LET latest == acc.latest_votes[vote.validator_id] IN
         IF vote.slot >= latest.slot
         THEN [acc EXCEPT !.latest_votes = MapPut(@, vote.validator_id, vote)]
         ELSE acc
    ELSE [acc EXCEPT !.latest_votes = MapPut(@, vote.validator_id, vote)]

\* fork_choice.rs:15-31, the body of `for vote in &view.votes`; acc holds
\* latest_votes (validator -> vote) and equivocators.
filter_step(acc, vote, current_slot) ==
    IF vote.slot < saturating_sub(current_slot, ETA) THEN acc
    ELSE IF vote.validator_id \in DOMAIN acc.latest_votes
    THEN LET latest == acc.latest_votes[vote.validator_id] IN
         IF vote.slot > latest.slot
         THEN [acc EXCEPT !.latest_votes = MapPut(@, vote.validator_id, vote)]
         ELSE IF vote.slot = latest.slot /\ vote.chain_head_hash # latest.chain_head_hash
         THEN [acc EXCEPT !.equivocators = @ \cup {vote.validator_id}]
         ELSE acc
    ELSE [acc EXCEPT !.latest_votes = MapPut(@, vote.validator_id, vote)]

\* fork_choice.rs:15, the loop over view.votes[lo..hi] in order (the range
\* is halved, and the test on acc has the left half computed before the
\* right one is entered, so that the evaluation depth stays logarithmic in
\* its length).
RECURSIVE filter_loop(_, _, _, _, _)
filter_loop(view, current_slot, lo, hi, acc) ==
    IF acc # acc \/ lo > hi THEN acc
    ELSE IF lo = hi THEN filter_step(acc, view.votes[lo], current_slot)
    ELSE filter_loop(view, current_slot, (lo + hi) \div 2 + 1, hi,
             filter_loop(view, current_slot, lo, (lo + hi) \div 2, acc))

\* fork_choice.rs:34-37: the latest votes, equivocators left out
without_equivocators(acc) ==
    [id \in DOMAIN acc.latest_votes \ acc.equivocators |-> acc.latest_votes[id]]

\* filter_rlmd_votes(view, current_slot)
filter_rlmd_votes(view, current_slot) ==
    without_equivocators(
        filter_loop(view, current_slot, 1, Len(view.votes),
                    [latest_votes |-> EmptyMap, equivocators |-> {}]))

\* vote_counts_for with the `if let Some(vote_block)` of fork_choice.rs:60
\* written as an unwrap(): a vote for an unknown block aborts the count
vote_counts_for_unwrap(child_block, vote, view) ==
    IF vote.chain_head_hash \in DOMAIN view.blocks
    THEN LET vote_block == view.blocks[vote.chain_head_hash] IN
         IF child_block.hash = vote_block.hash THEN Ok(TRUE)
         ELSE is_ancestor_of(child_block, vote_block, view)
    ELSE Fail("panic")

\* fork_choice.rs:58-66, the filter closure on one filtered vote for one
\* child: does the vote count for the child's subtree
vote_counts_for(child_block, vote, view) ==
    IF vote.chain_head_hash \in DOMAIN view.blocks
    THEN LET vote_block == view.blocks[vote.chain_head_hash] IN
         IF child_block.hash = vote_block.hash THEN Ok(TRUE)
         ELSE is_ancestor_of(child_block, vote_block, view)
    ELSE Ok(FALSE)

\* fork_choice.rs:67 count() over what the closure gave for each filtered
\* vote; fails holds the ways the count can abort.
count_votes(counts) ==
    [fails |-> {counts[id].status : id \in DOMAIN counts} \ {"ok"},
     count |-> Cardinality({id \in DOMAIN counts : counts[id].res})]

\* fork_choice.rs:57-67, the key of max_by_key: the number of filtered votes
\* for the child's subtree
subtree_votes(child_block, view, filtered_votes) ==
    count_votes([id \in DOMAIN filtered_votes |->
                    vote_counts_for(child_block, filtered_votes[id], view)])

\* fork_choice.rs:47-49
children_of(view, current_hash) ==
    {view.blocks[h] : h \in {x \in DOMAIN view.blocks :
                                 view.blocks[x].parent_hash = current_hash}}

\* best_children with min_by_key in place of max_by_key
best_children_lightest(children, weight) ==
    {c \in children : \A d \in children : weight[c].count <= weight[d].count}

\* fork_choice.rs:56-68: max_by_key keeps the last maximal child in the
\* iteration order of the block map, which is arbitrary: every child of
\* maximal weight can be the one kept.
best_children(children, weight) ==
    {c \in children : \A d \in children : weight[d].count <= weight[c].count}

\* ghost(view, filtered_votes, start_hash): the set of the results the loop
\* can give, as [status, hash].  `visited` are the hashes the loop has
\* left: the choice at a block is the same every time the loop is there, so
\* coming back to one means the loop never ends.
RECURSIVE ghost_from(_, _, _, _)
\* fork_choice.rs:51-70, one pass of the loop at current_hash with its
\* children and their weights
ghost_step(view, filtered_votes, current_hash, visited, children, weight) ==
    IF children = {} THEN {[status |-> "ok", hash |-> current_hash]}
    ELSE IF \E c \in children : weight[c].fails # {}
    THEN {[status |-> f, hash |-> current_hash] :
             f \in UNION {weight[c].fails : c \in children}}
    ELSE UNION {IF c.hash \in visited \cup {current_hash}
                THEN {[status |-> "hang", hash |-> c.hash]}
                ELSE ghost_from(view, filtered_votes, c.hash,
                                visited \cup {current_hash})
                : c \in best_children(children, weight)}

ghost_weights(view, filtered_votes, current_hash, visited, children) ==
    ghost_step(view, filtered_votes, current_hash, visited, children,
               [c \in children |-> subtree_votes(c, view, filtered_votes)])

ghost_from(view, filtered_votes, current_hash, visited) ==
    ghost_weights(view, filtered_votes, current_hash, visited,
                  children_of(view, current_hash))

ghost(view, filtered_votes, start_hash) == ghost_from(view, filtered_votes, start_hash, {})

\* rlmd_ghost_fork_choice(view, start_hash, current_slot)
rlmd_ghost_fork_choice(view, start_hash, current_slot) ==
    ghost(view, filter_rlmd_votes(view, current_slot), start_hash)

\* ------------------------------------------------------------------------
\* node.rs
\* ------------------------------------------------------------------------
Proposal(chain_head_hash, view, slot, proposer_id) ==
    [chain_head_hash |-> chain_head_hash, view |-> view, slot |-> slot,
     proposer_id |-> proposer_id]

\* Node::new(id)
Node_new(id) ==
    LET initial_view == View(MapPut(EmptyMap, GENESIS_HASH, genesis), <<>>) IN
    [validator_id |-> id,
     view |-> initial_view,
     frozen_view |-> initial_view,
     ch_ava |-> GENESIS_HASH,
     ch_fin |-> GENESIS_HASH,
     justification_cache |-> EmptyMap,
     finalization_cache |-> EmptyMap]

\* An operation of a Node gives [status, node, ret]: the node after it and
\* what it returned, or the way it aborted (the node is then lost with the
\* process and is left as it was).
Done(after, ret) == [status |-> "ok", node |-> after, ret |-> ret]

Aborted(self, status) == [status |-> status, node |-> self, ret |-> <<>>]

\* receive_message that stores into frozen_view as well as into view
receive_message_both_views(self, block, vote) ==
    LET blocks == IF block # <<>>
                  THEN MapOrInsert(self.view.blocks, block[1].hash, block[1])
                  ELSE self.view.blocks
        votes == IF vote # <<>> THEN Append(self.view.votes, vote[1])
                 ELSE self.view.votes
    IN  [self EXCEPT !.view = View(blocks, votes), !.frozen_view = View(blocks, votes)]

\* Node::receive_message(block, vote); an Option is <<>> or <<x>>
receive_message(self, block, vote) ==
    LET blocks == IF block # <<>>
                  THEN MapOrInsert(self.view.blocks, block[1].hash, block[1])
                  ELSE self.view.blocks
        votes == IF vote # <<>> THEN Append(self.view.votes, vote[1])
                 ELSE self.view.votes
    IN  [self EXCEPT !.view = View(blocks, votes)]

\* node.rs:64 format!("block_slot_{}_proposer_{}", current_slot, id)
block_hash_of(current_slot, id) ==
    "block_slot_" \o ToString(current_slot) \o "_proposer_" \o ToString(id)

\* node.rs:60-77, propose() once greatest_justified_checkpoint has given
\* gjc: one outcome for each head the fork choice can return
propose_on(self, current_slot, gjc) ==
    IF gjc.status # "ok" THEN {Aborted(self, gjc.status)}
    ELSE {IF head.status # "ok" THEN Aborted(self, head.status)
          ELSE LET new_block == Block(block_hash_of(current_slot, self.validator_id),
                                      head.hash, current_slot, self.validator_id)
                   view == View(MapPut(self.view.blocks, new_block.hash, new_block),
                                self.view.votes)
               IN  Done([self EXCEPT !.view = view, !.justification_cache = gjc.cache],
                        Proposal(new_block.hash, view, current_slot, self.validator_id))
          : head \in rlmd_ghost_fork_choice(self.view, gjc.res.block_hash, current_slot)}

\* Node::propose(current_slot): the set of its outcomes
propose(self, current_slot) ==
    propose_on(self, current_slot,
               greatest_justified_checkpoint(self.view, self.justification_cache))

\* node.rs:85-87, the blocks of the proposal, first writer wins
merge_blocks(blocks, proposed) ==
    [h \in DOMAIN blocks \cup DOMAIN proposed |->
        IF h \in DOMAIN blocks THEN blocks[h] ELSE proposed[h]]

\* Node::on_receive_proposal(proposal)
on_receive_proposal(self, proposal) ==
    [self EXCEPT !.frozen_view =
        View(merge_blocks(self.frozen_view.blocks, proposal.view.blocks),
             self.frozen_view.votes \o proposal.view.votes)]

\* Node::get_k_deep_prefix, the while loop from current_block; `visited`
\* are the hashes the walk has left
RECURSIVE k_deep_walk(_, _, _, _, _)
k_deep_walk(frozen_view, head_block, k, current_block, visited) ==
    IF ~(current_block.slot > saturating_sub(head_block.slot, k))
    THEN [status |-> "ok", hash |-> current_block.hash]
    ELSE IF current_block.parent_hash = NULL_HASH
    THEN [status |-> "ok", hash |-> current_block.hash]
    ELSE IF current_block.parent_hash \notin DOMAIN frozen_view.blocks
    THEN [status |-> "panic", hash |-> current_block.hash]
    ELSE IF current_block.parent_hash \in visited
    THEN [status |-> "hang", hash |-> current_block.hash]
    ELSE k_deep_walk(frozen_view, head_block, k,
                     frozen_view.blocks[current_block.parent_hash],
                     visited \cup {current_block.parent_hash})

\* get_k_deep_prefix walking back one slot more than k
get_k_deep_prefix_one_more(self, head_block, k) ==
    k_deep_walk(self.frozen_view, head_block, k + 1, head_block, {})

get_k_deep_prefix(self, head_block, k) ==
    k_deep_walk(self.frozen_view, head_block, k, head_block, {})

\* node.rs:105-108: max_by_key over [ch_ava, k_deep_prefix, gjc block] by
\* the slot of the block in frozen_view; the last maximal one is kept.
max_by_slot(frozen_view, candidates) ==
    IF \E i \in DOMAIN candidates : candidates[i] \notin DOMAIN frozen_view.blocks
    THEN [status |-> "panic", hash |-> candidates[1]]
    ELSE LET slot(i) == frozen_view.blocks[candidates[i]].slot
             best == CHOOSE i \in DOMAIN candidates :
                        /\ \A j \in DOMAIN candidates : slot(j) <= slot(i)
                        /\ \A j \in DOMAIN candidates : j > i => slot(j) < slot(i)
         IN  [status |-> "ok", hash |-> candidates[best]]

\* node.rs:110-120, vote() once max_by_key has given the new ch_ava
vote_with(self, current_slot, gjc_frozen, cache, head_hash, ch_ava) ==
    IF ch_ava.status # "ok" THEN Aborted(self, ch_ava.status)
    ELSE Done([self EXCEPT !.ch_ava = ch_ava.hash, !.justification_cache = cache],
              Vote(head_hash, gjc_frozen, Checkpoint(ch_ava.hash, current_slot),
                   current_slot, self.validator_id))

\* node.rs:105-120, vote() once get_k_deep_prefix has given k_deep_prefix
vote_on_prefix(self, current_slot, gjc_frozen, cache, head_hash, k_deep_prefix) ==
    IF k_deep_prefix.status # "ok" THEN Aborted(self, k_deep_prefix.status)
    ELSE vote_with(self, current_slot, gjc_frozen, cache, head_hash,
                   max_by_slot(self.frozen_view,
                       <<self.ch_ava, k_deep_prefix.hash, gjc_frozen.block_hash>>))

\* node.rs:101-120, vote() once the fork choice has returned head_hash
vote_on_head(self, current_slot, gjc_frozen, cache, head_hash) ==
    IF head_hash \notin DOMAIN self.frozen_view.blocks THEN Aborted(self, "panic")
    ELSE vote_on_prefix(self, current_slot, gjc_frozen, cache, head_hash,
             get_k_deep_prefix(self, self.frozen_view.blocks[head_hash], KAPPA))

\* node.rs:99-120, vote() once greatest_justified_checkpoint has given gjc
vote_from(self, current_slot, gjc) ==
    IF gjc.status # "ok" THEN {Aborted(self, gjc.status)}
    ELSE {IF head.status # "ok" THEN Aborted(self, head.status)
          ELSE vote_on_head(self, current_slot, gjc.res, gjc.cache, head.hash)
          : head \in rlmd_ghost_fork_choice(self.frozen_view, gjc.res.block_hash,
                                            current_slot)}

\* Node::vote(current_slot): the set of its outcomes
vote(self, current_slot) ==
    vote_from(self, current_slot,
              greatest_justified_checkpoint(self.frozen_view, self.justification_cache))

\* node.rs:126-131: vote_counts, the number of votes of the view in
\* current_slot for the chain head
vote_count(view, current_slot, chain_head_hash) ==
    Cardinality({i \in DOMAIN view.votes :
                    /\ view.votes[i].slot = current_slot
                    /\ view.votes[i].chain_head_hash = chain_head_hash})

\* node.rs:134: the entries of vote_counts that `find` can stop at
fast_candidates(view, current_slot) ==
    {h \in {view.votes[i].chain_head_hash :
               i \in {j \in DOMAIN view.votes : view.votes[j].slot = current_slot}} :
        vote_count(view, current_slot, h) > (2 * n_fast_confirm) \div 3}

\* fast_confirm that finalizes what it confirms: ch_fin follows ch_ava
fast_confirm_finalizing(self, current_slot) ==
    {[self EXCEPT !.ch_ava = fast_cand, !.ch_fin = fast_cand] :
        fast_cand \in fast_candidates(self.view, current_slot) \cup {self.ch_ava}}

\* Node::fast_confirm(current_slot): the set of the nodes it can leave; the
\* map is searched in an arbitrary order, so any candidate can be taken
fast_confirm(self, current_slot) ==
    LET found == fast_candidates(self.view, current_slot) IN
    IF found = {} THEN {self}
    ELSE {[self EXCEPT !.ch_ava = fast_cand] : fast_cand \in found}

\* Node::merge()
merge(self) ==
    [self EXCEPT !.frozen_view = self.view,
                 !.justification_cache = EmptyMap,
                 !.finalization_cache = EmptyMap]

\* ------------------------------------------------------------------------
\* Node runs: one Node from Node::new under every interleaving of its
\* public operations, with blocks, votes and proposals from remote peers.
\* ------------------------------------------------------------------------
FastThreshold == (2 * n_fast_confirm) \div 3

\* number of operations called on the node in one run
MaxOps == 4

Slots == {1, 2}

R1 == Block("R1", GENESIS_HASH, 1, 1)

\* a block whose parent no peer ever sends
O1 == Block("O1", "missing", 1, 2)

RBlocks == {R1, O1}

RVotes ==
    {Vote("R1", GenesisCheckpoint, Checkpoint("R1", 1), 1, 1),
     Vote("O1", Checkpoint("R1", 1), Checkpoint("R1", 2), 2, 2),
     Vote("R1", Checkpoint("R1", 1), Checkpoint("R1", 1), 1, 2)}

\* the slot-1 votes of k validators 10, 11, .. for head R1
RoundVotes(k) ==
    [i \in 1..k |-> Vote("R1", GenesisCheckpoint, Checkpoint("R1", 1), 1, 9 + i)]

\* one validator's slot-1 vote for head R1, k times
RepeatedVote(k) ==
    [i \in 1..k |-> Vote("R1", GenesisCheckpoint, Checkpoint("R1", 1), 1, 10)]

\* what a driver's broadcast loop can deliver: exactly two thirds of the
\* validators, one more, or one vote over and over
Broadcasts ==
    {RoundVotes(FastThreshold), RoundVotes(FastThreshold + 1),
     RepeatedVote(FastThreshold + 1)}

RProposals ==
    {Proposal("R1", View(MapPut(MapPut(EmptyMap, GENESIS_HASH, genesis), "R1", R1),
                         <<Vote("R1", GenesisCheckpoint, Checkpoint("R1", 1), 1, 1)>>),
              1, 1),
     Proposal("O1", View(MapPut(MapPut(EmptyMap, GENESIS_HASH, genesis), "O1", O1),
                         <<Vote("O1", GenesisCheckpoint, Checkpoint("O1", 1), 1, 2)>>),
              1, 2)}

Init ==
    /\ node = Node_new(0)
    /\ process = "running"
    /\ ops = 0
    /\ jview = <<>> /\ jcp = <<>> /\ jres = <<>>
    /\ fview = <<>> /\ fres = <<>>
    /\ nodes = <<>> /\ hslot = <<>> /\ phase = <<>> /\ turn = <<>>
    /\ pending = <<>> /\ cast = <<>> /\ outcome = <<>> /\ reported = <<>>

\* a call can be made: the process is alive (and the run is not over)
Callable == process = "running" /\ ops < MaxOps

\* the step of a call whose outcome is out
Step(out) ==
    /\ process' = IF out.status = "ok" THEN "running" ELSE out.status
    /\ node' = out.node
    /\ ops' = ops + 1
    /\ UNCHANGED <<jvars, fvars, hvars>>

ReceiveBlock ==
    /\ Callable
    /\ \E b \in RBlocks : Step(Done(receive_message(node, <<b>>, <<>>), <<>>))

ReceiveVote ==
    /\ Callable
    /\ \E v \in RVotes : Step(Done(receive_message(node, <<>>, <<v>>), <<>>))

\* main.rs:71-75 for one node: receive_message(None, Some(vote)) for every
\* vote of a broadcast, in order (the test on self has the left half
\* delivered before the right one is entered)
RECURSIVE receive_votes(_, _, _, _)
receive_votes(self, votes, lo, hi) ==
    IF self # self \/ lo > hi THEN self
    ELSE IF lo = hi THEN receive_message(self, <<>>, <<votes[lo]>>)
    ELSE receive_votes(receive_votes(self, votes, lo, (lo + hi) \div 2),
                       votes, (lo + hi) \div 2 + 1, hi)

ReceiveBroadcast ==
    /\ Callable
    /\ \E votes \in Broadcasts :
          Step(Done(receive_votes(node, votes, 1, Len(votes)), <<>>))

Propose ==
    /\ Callable
    /\ \E current_slot \in Slots : \E out \in propose(node, current_slot) : Step(out)

OnReceiveProposal ==
    /\ Callable
    /\ \E proposal \in RProposals :
          Step(Done(on_receive_proposal(node, proposal), <<>>))

CastVote ==
    /\ Callable
    /\ \E current_slot \in Slots : \E out \in vote(node, current_slot) : Step(out)

FastConfirm ==
    /\ Callable
    /\ \E current_slot \in Slots : \E after \in fast_confirm(node, current_slot) :
          Step(Done(after, <<>>))

Merge ==
    /\ Callable
    /\ Step(Done(merge(node), <<>>))

Next ==
    \/ ReceiveBlock
    \/ ReceiveVote
    \/ ReceiveBroadcast
    \/ Propose
    \/ OnReceiveProposal
    \/ CastVote
    \/ FastConfirm
    \/ Merge

Spec == Init /\ [][Next]_vars

\* ------------------------------------------------------------------------
\* Justification runs: is_justified / greatest_justified_checkpoint as pure
\* functions of a view that grows by received blocks and votes.
\* ------------------------------------------------------------------------
Threshold == (2 * n_justification) \div 3

\* number of votes received one at a time on top of the initial view
MaxExtraVotes == 2

\* cap on the votes of a view of the justification runs
MaxJVotes == Threshold + 1 + MaxExtraVotes

B1 == Block("B1", GENESIS_HASH, 1, 1)

B2 == Block("B2", "B1", 2, 2)

B3 == Block("B3", "B2", 3, 3)

C1blk == Block("C1", GENESIS_HASH, 1, 4)

JBaseBlocks == MapPut(MapPut(MapPut(EmptyMap, GENESIS_HASH, genesis), "B1", B1), "B2", B2)

JTargets == {Checkpoint("B1", 1), Checkpoint("B2", 1)}

\* k validators 0..k-1, each voting genesis -> target with head B2 in slot 1
JBaseVotes(k, target) ==
    [i \in 1..k |-> Vote("B2", GenesisCheckpoint, target, 1, i - 1)]

JExtraVotes ==
    {Vote("B2", GenesisCheckpoint, t, 1, Threshold) : t \in JTargets}
    \cup {Vote("B2", Checkpoint("B1", 1), Checkpoint("B2", 1), 1, Threshold + 1),
          Vote("B2", GenesisCheckpoint, Checkpoint("unknown", 1), 1, Threshold + 2)}

JExtraBlocks == {B3, C1blk}

JInit ==
    /\ \E k \in {Threshold, Threshold + 1} : \E t \in JTargets :
           jview = View(JBaseBlocks, JBaseVotes(k, t))
    /\ jcp \in JTargets
    /\ jres = <<>>
    /\ fview = <<>> /\ fres = <<>>
    /\ node = <<>> /\ process = <<>> /\ ops = <<>>
    /\ nodes = <<>> /\ hslot = <<>> /\ phase = <<>> /\ turn = <<>>
    /\ pending = <<>> /\ cast = <<>> /\ outcome = <<>> /\ reported = <<>>

\* Node::receive_message(None, Some(vote)) seen from the view
JReceiveVote ==
    /\ Len(jview.votes) < MaxJVotes
    /\ \E v \in JExtraVotes : jview' = [jview EXCEPT !.votes = Append(@, v)]
    /\ UNCHANGED <<jcp, jres, fvars, nvars, hvars>>

\* Node::receive_message(Some(block), None), for blocks that keep the tree
JReceiveBlock ==
    /\ \E b \in JExtraBlocks :
          /\ b.parent_hash \in DOMAIN jview.blocks
          /\ b.hash \notin DOMAIN jview.blocks
          /\ jview' = [jview EXCEPT !.blocks = MapOrInsert(@, b.hash, b)]
    /\ UNCHANGED <<jcp, jres, fvars, nvars, hvars>>

\* one call of is_justified with an empty cache; jres records the call: the
\* size of the view at that moment (views only grow, so this identifies it),
\* the checkpoint and what the call gave
JEvaluate ==
    /\ jres' = [votes |-> Len(jview.votes), hashes |-> DOMAIN jview.blocks,
                checkpoint |-> jcp,
                out |-> is_justified(jcp, jview, EmptyMap, {})]
    /\ UNCHANGED <<jview, jcp, fvars, nvars, hvars>>

JNext == JReceiveVote \/ JReceiveBlock \/ JEvaluate

SpecJ == JInit /\ [][JNext]_vars

\* ------------------------------------------------------------------------
\* Fork-choice runs: filter_rlmd_votes / ghost as pure functions of a view
\* that grows by received blocks and votes, in every arrival order.
\* ------------------------------------------------------------------------
\* number of votes a view of the fork-choice runs can hold
MaxFVotes == 3

A1 == Block("A1", GENESIS_HASH, 1, 1)

A2 == Block("A2", GENESIS_HASH, 1, 2)

A3 == Block("A3", "A1", 2, 3)

FBlocks == {A1, A2, A3}

\* head votes of validators 0 and 1 in slots 1 and 2 for A2 and A3
FVotes ==
    {Vote(h, GenesisCheckpoint, GenesisCheckpoint, s, v) :
        h \in {"A2", "A3"}, s \in {1, 2}, v \in {0, 1}}

\* current_slot values: nothing expired / slot 1 expired (7 - ETA = 2)
FSlots == {2, ETA + 2}

FInit ==
    /\ fview = View(MapPut(EmptyMap, GENESIS_HASH, genesis), <<>>)
    /\ fres = <<>>
    /\ jview = <<>> /\ jcp = <<>> /\ jres = <<>>
    /\ node = <<>> /\ process = <<>> /\ ops = <<>>
    /\ nodes = <<>> /\ hslot = <<>> /\ phase = <<>> /\ turn = <<>>
    /\ pending = <<>> /\ cast = <<>> /\ outcome = <<>> /\ reported = <<>>

\* Node::receive_message(None, Some(vote)) seen from the view
FReceiveVote ==
    /\ Len(fview.votes) < MaxFVotes
    /\ \E v \in FVotes : fview' = [fview EXCEPT !.votes = Append(@, v)]
    /\ fres' = <<>>
    /\ UNCHANGED <<jvars, nvars, hvars>>

\* Node::receive_message(Some(block), None), for blocks that keep the tree
FReceiveBlock ==
    /\ \E b \in FBlocks :
          /\ b.parent_hash \in DOMAIN fview.blocks
          /\ b.hash \notin DOMAIN fview.blocks
          /\ fview' = [fview EXCEPT !.blocks = MapOrInsert(@, b.hash, b)]
    /\ fres' = <<>>
    /\ UNCHANGED <<jvars, nvars, hvars>>

\* one call of rlmd_ghost_fork_choice; fres records the call
FForkChoice ==
    /\ \E start_hash \in DOMAIN fview.blocks : \E current_slot \in FSlots :
       \E out \in rlmd_ghost_fork_choice(fview, start_hash, current_slot) :
           fres' = [start_hash |-> start_hash, current_slot |-> current_slot,
                    filtered |-> filter_rlmd_votes(fview, current_slot),
                    out |-> out]
    /\ UNCHANGED <<fview, jvars, nvars, hvars>>

FNext == FReceiveVote \/ FReceiveBlock \/ FForkChoice

SpecFC == FInit /\ [][FNext]_vars

\* ------------------------------------------------------------------------
\* Prefix runs: one Node whose frozen_view grows into a block tree by the
\* proposals of remote peers, and that votes on it.
\* ------------------------------------------------------------------------
\* a linear chain with one block per slot 1..6
L1 == Block("L1", GENESIS_HASH, 1, 1)

L2 == Block("L2", "L1", 2, 2)

L3 == Block("L3", "L2", 3, 3)

L4 == Block("L4", "L3", 4, 4)

L5 == Block("L5", "L4", 5, 5)

L6 == Block("L6", "L5", 6, 6)

\* a chain with empty slots
G1 == Block("G1", GENESIS_HASH, 1, 7)

G6 == Block("G6", "G1", 6, 8)

G9 == Block("G9", "G6", 9, 9)

\* a chain whose slots do not grow with the height
N5 == Block("N5", GENESIS_HASH, 5, 7)

N3 == Block("N3", "N5", 3, 8)

N9 == Block("N9", "N3", 9, 9)

KBlocks == {L1, L2, L3, L4, L5, L6, G1, G6, G9, N5, N3, N9}

\* the view of a proposer that holds genesis and the blocks
KView(blocks) ==
    View([h \in {GENESIS_HASH} \cup {b.hash : b \in blocks} |->
             IF h = GENESIS_HASH THEN genesis ELSE CHOOSE b \in blocks : b.hash = h],
         <<>>)

\* the slot-5 vote of validator 7 for the head G1
ForkVote == Vote("G1", GenesisCheckpoint, GenesisCheckpoint, 5, 7)

\* proposals of one block, the proposal of the chain of slots 1..5, and a
\* proposal of G1 whose view carries a vote for it
KProposals ==
    {Proposal(b.hash, KView({b}), b.slot, b.proposer_id) : b \in KBlocks}
    \cup {Proposal("L5", KView({L1, L2, L3, L4, L5}), 5, 5),
          Proposal("G1", View(KView({G1}).blocks, <<ForkVote>>), 5, 7)}

KSlots == {5, 9}

KInit ==
    /\ node = Node_new(0)
    /\ process = "running"
    /\ ops = 0
    /\ jview = <<>> /\ jcp = <<>> /\ jres = <<>>
    /\ fview = <<>> /\ fres = <<>>
    /\ nodes = <<>> /\ hslot = <<>> /\ phase = <<>> /\ turn = <<>>
    /\ pending = <<>> /\ cast = <<>> /\ outcome = <<>> /\ reported = <<>>

\* Node::on_receive_proposal, for proposals that keep frozen_view a tree
\* and bring something new
KOnReceiveProposal ==
    /\ process = "running"
    /\ \E proposal \in KProposals :
          /\ \A h \in DOMAIN proposal.view.blocks :
                 proposal.view.blocks[h].parent_hash \in
                     DOMAIN node.frozen_view.blocks \cup DOMAIN proposal.view.blocks
                     \cup {NULL_HASH}
          /\ DOMAIN proposal.view.blocks \ DOMAIN node.frozen_view.blocks # {}
          /\ node' = on_receive_proposal(node, proposal)
    /\ UNCHANGED <<process, ops, jvars, fvars, hvars>>

\* Node::vote
KVote ==
    /\ process = "running"
    /\ \E current_slot \in KSlots : \E out \in vote(node, current_slot) :
          /\ node' = out.node
          /\ process' = IF out.status = "ok" THEN "running" ELSE out.status
    /\ UNCHANGED <<ops, jvars, fvars, hvars>>

KNext == KOnReceiveProposal \/ KVote

SpecK == KInit /\ [][KNext]_vars

\* ------------------------------------------------------------------------
\* Cache runs: one Node from Node::new under every interleaving of its
\* public operations, with a remote chain of two blocks, a supermajority
\* link over it and a vote whose source that link justifies.
\* ------------------------------------------------------------------------
\* number of operations called on the node in one cache run
MaxVOps == 4

VSlots == {2, 3}

K1 == Block("K1", GENESIS_HASH, 1, 1)

K2 == Block("K2", "K1", 2, 2)

VBlocks == {K1, K2}

\* a slot-3 vote whose source is the checkpoint (K1, 2)
SourceVote == Vote("K2", Checkpoint("K1", 2), Checkpoint("K2", 3), 3, 1)

\* the slot-2 votes of k validators 10, 11, .. : genesis -> (K2, 2)
LinkVotes(k) ==
    [i \in 1..k |-> Vote("K2", GenesisCheckpoint, Checkpoint("K2", 2), 2, 9 + i)]

VChain == MapPut(MapPut(MapPut(EmptyMap, GENESIS_HASH, genesis), "K1", K1), "K2", K2)

VProposals ==
    {Proposal("K2", View(VChain, <<SourceVote>>), 3, 2),
     Proposal("K2", View(VChain, LinkVotes(FastThreshold + 1)), 2, 2)}

VInit ==
    /\ node = Node_new(0)
    /\ process = "running"
    /\ ops = 0
    /\ jview = <<>> /\ jcp = <<>> /\ jres = <<>>
    /\ fview = <<>> /\ fres = <<>>
    /\ nodes = <<>> /\ hslot = <<>> /\ phase = <<>> /\ turn = <<>>
    /\ pending = <<>> /\ cast = <<>> /\ outcome = <<>> /\ reported = <<>>

VCallable == process = "running" /\ ops < MaxVOps

VReceiveBlock ==
    /\ VCallable
    /\ \E b \in VBlocks : Step(Done(receive_message(node, <<b>>, <<>>), <<>>))

VReceiveVote ==
    /\ VCallable
    /\ Step(Done(receive_message(node, <<>>, <<SourceVote>>), <<>>))

VReceiveBroadcast ==
    /\ VCallable
    /\ Step(Done(receive_votes(node, LinkVotes(FastThreshold + 1), 1, FastThreshold + 1),
                 <<>>))

VPropose ==
    /\ VCallable
    /\ \E current_slot \in VSlots : \E out \in propose(node, current_slot) : Step(out)

VOnReceiveProposal ==
    /\ VCallable
    /\ \E proposal \in VProposals :
          Step(Done(on_receive_proposal(node, proposal), <<>>))

VCastVote ==
    /\ VCallable
    /\ \E current_slot \in VSlots : \E out \in vote(node, current_slot) : Step(out)

VFastConfirm ==
    /\ VCallable
    /\ \E current_slot \in VSlots : \E after \in fast_confirm(node, current_slot) :
          Step(Done(after, <<>>))

VMerge ==
    /\ VCallable
    /\ Step(Done(merge(node), <<>>))

VNext ==
    \/ VReceiveBlock
    \/ VReceiveVote
    \/ VReceiveBroadcast
    \/ VPropose
    \/ VOnReceiveProposal
    \/ VCastVote
    \/ VFastConfirm
    \/ VMerge

SpecV == VInit /\ [][VNext]_vars

\* ------------------------------------------------------------------------
\* Checkpoint runs: greatest_justified_checkpoint with an empty cache on a
\* view over the chain genesis <- B1 <- B2 <- B3 in which a link from
\* genesis to (B3, 3) is voted, and votes with the sources (B1, 3) and
\* (B2, 3) arrive in every order.
\* ------------------------------------------------------------------------
\* number of votes received one at a time on top of the initial view
MaxGVotes == 3

GBlocks == MapPut(JBaseBlocks, "B3", B3)

\* k validators 0..k-1, each voting genesis -> (B3, 3) with head B3
GBaseVotes(k) ==
    [i \in 1..k |-> Vote("B3", GenesisCheckpoint, Checkpoint("B3", 3), 3, i - 1)]

GLateVotes ==
    {Vote("B3", Checkpoint("B1", 3), Checkpoint("B3", 4), 4, Threshold + 1),
     Vote("B3", Checkpoint("B2", 3), Checkpoint("B3", 4), 4, Threshold + 2),
     Vote("B3", GenesisCheckpoint, Checkpoint("B3", 3), 3, Threshold + 1)}

GInit ==
    /\ \E k \in {Threshold, Threshold + 1} : jview = View(GBlocks, GBaseVotes(k))
    /\ jcp = <<>>
    /\ jres = <<>>
    /\ fview = <<>> /\ fres = <<>>
    /\ node = <<>> /\ process = <<>> /\ ops = <<>>
    /\ nodes = <<>> /\ hslot = <<>> /\ phase = <<>> /\ turn = <<>>
    /\ pending = <<>> /\ cast = <<>> /\ outcome = <<>> /\ reported = <<>>

\* the votes of the view received after the initial ones
Late(view) == {i \in DOMAIN view.votes : view.votes[i].validator_id > Threshold}

\* Node::receive_message(None, Some(vote)) seen from the view
GReceiveVote ==
    /\ Cardinality(Late(jview)) < MaxGVotes
    /\ \E v \in GLateVotes : jview' = [jview EXCEPT !.votes = Append(@, v)]
    /\ jres' = <<>>
    /\ UNCHANGED <<jcp, fvars, nvars, hvars>>

\* one call of greatest_justified_checkpoint with an empty cache; jres
\* records what the call gave
GEvaluate ==
    /\ jres' = greatest_justified_checkpoint(jview, EmptyMap)
    /\ UNCHANGED <<jview, jcp, fvars, nvars, hvars>>

GNext == GReceiveVote \/ GEvaluate

SpecG == GInit /\ [][GNext]_vars

\* ------------------------------------------------------------------------
\* Honest runs: main.rs, simulate_slot and check_finalization_status for
\* the slots 1..MaxHSlot over a Vec of honest nodes, one step for each
\* iteration of the loop of a phase.
\* ------------------------------------------------------------------------
\* number of slots main simulates
MaxHSlot == 3

\* the lengths of the Vec<Node>: the one of main.rs:14 and the validator
\* count of the thresholds
NodeCounts == {10, n_justification}

HInit ==
    /\ \E count \in NodeCounts : nodes = [i \in 0..(count - 1) |-> Node_new(i)]
    /\ hslot = 1
    /\ phase = "propose"
    /\ turn = 0
    /\ pending = <<>>
    /\ cast = <<>>
    /\ outcome = "running"
    /\ reported = {}
    /\ node = <<>> /\ process = <<>> /\ ops = <<>>
    /\ jview = <<>> /\ jcp = <<>> /\ jres = <<>>
    /\ fview = <<>> /\ fres = <<>>

\* main.rs:41
proposer_id == (hslot - 1) % Cardinality(DOMAIN nodes)

\* the loop of a phase moves to the next node, or the phase ends
Advance(next_phase) ==
    IF turn + 1 < Cardinality(DOMAIN nodes)
    THEN turn' = turn + 1 /\ phase' = phase
    ELSE turn' = 0 /\ phase' = next_phase

\* main.rs:46
HPropose ==
    /\ outcome = "running" /\ phase = "propose" /\ hslot <= MaxHSlot
    /\ \E out \in propose(nodes[proposer_id], hslot) :
          IF out.status = "ok"
          THEN /\ nodes' = [nodes EXCEPT ![proposer_id] = out.node]
               /\ pending' = out.ret
               /\ phase' = "distribute"
               /\ outcome' = outcome
          ELSE /\ outcome' = out.status
               /\ UNCHANGED <<nodes, pending, phase>>
    /\ UNCHANGED <<hslot, turn, cast, reported, nvars, jvars, fvars>>

\* main.rs:51-55, one iteration
HDistribute ==
    /\ outcome = "running" /\ phase = "distribute"
    /\ nodes' = IF turn # proposer_id
                THEN [nodes EXCEPT ![turn] = on_receive_proposal(@, pending)]
                ELSE nodes
    /\ Advance("vote")
    /\ UNCHANGED <<hslot, pending, cast, outcome, reported, nvars, jvars, fvars>>

\* main.rs:59-67, one iteration
HVote ==
    /\ outcome = "running" /\ phase = "vote"
    /\ \E out \in vote(nodes[turn], hslot) :
          IF out.status = "ok"
          THEN /\ nodes' = [nodes EXCEPT ![turn] = out.node]
               /\ cast' = Append(cast, out.ret)
               /\ Advance("broadcast")
               /\ outcome' = outcome
          ELSE /\ outcome' = out.status
               /\ UNCHANGED <<nodes, cast, phase, turn>>
    /\ UNCHANGED <<hslot, pending, reported, nvars, jvars, fvars>>

\* main.rs:71-75, one iteration of the outer loop
HBroadcast ==
    /\ outcome = "running" /\ phase = "broadcast"
    /\ nodes' = [nodes EXCEPT ![turn] = receive_votes(@, cast, 1, Len(cast))]
    /\ Advance("fast_confirm")
    /\ UNCHANGED <<hslot, pending, cast, outcome, reported, nvars, jvars, fvars>>

\* main.rs:80-86, one iteration
HFastConfirm ==
    /\ outcome = "running" /\ phase = "fast_confirm"
    /\ \E after \in fast_confirm(nodes[turn], hslot) :
          nodes' = [nodes EXCEPT ![turn] = after]
    /\ Advance("merge")
    /\ UNCHANGED <<hslot, pending, cast, outcome, reported, nvars, jvars, fvars>>

\* main.rs:95-97, one iteration
HMerge ==
    /\ outcome = "running" /\ phase = "merge"
    /\ nodes' = [nodes EXCEPT ![turn] = merge(@)]
    /\ Advance("check")
    /\ UNCHANGED <<hslot, pending, cast, outcome, reported, nvars, jvars, fvars>>

\* main.rs:133-143: the checkpoints (block, slot of the block) of the blocks
\* of the view whose slot is one of the last three
recent_checkpoints(view, slot) ==
    {Checkpoint(h, view.blocks[h].slot) :
        h \in {x \in DOMAIN view.blocks :
                  /\ view.blocks[x].slot >= saturating_sub(slot, 2)
                  /\ view.blocks[x].slot <= slot}}

\* main.rs:121-164 once is_justified has given `results` for the recent
\* checkpoints of node 0's view.  The calls share a cache that starts empty
\* and is filled from this view only, so each gives what a call with an
\* empty cache gives.
check_finalization_status(results) ==
    IF \E cp \in DOMAIN results : results[cp].status # "ok"
    THEN /\ outcome' \in {results[cp].status : cp \in DOMAIN results} \ {"ok"}
         /\ UNCHANGED <<reported, hslot, phase>>
    ELSE /\ reported' = reported \cup {cp \in DOMAIN results : results[cp].res}
         /\ hslot' = hslot + 1
         /\ phase' = "propose"
         /\ outcome' = outcome

\* main.rs:24-27 after simulate_slot: check_finalization_status, then the
\* next slot
HCheck ==
    /\ outcome = "running" /\ phase = "check"
    /\ IF hslot < 3
       THEN /\ hslot' = hslot + 1
            /\ phase' = "propose"
            /\ UNCHANGED <<outcome, reported>>
       ELSE check_finalization_status(
                [cp \in recent_checkpoints(nodes[0].view, hslot) |->
                    is_justified(cp, nodes[0].view, EmptyMap, {})])
    /\ cast' = <<>>
    /\ UNCHANGED <<nodes, turn, pending, nvars, jvars, fvars>>

HNext ==
    \/ HPropose
    \/ HDistribute
    \/ HVote
    \/ HBroadcast
    \/ HFastConfirm
    \/ HMerge
    \/ HCheck

SpecH == HInit /\ [][HNext]_vars

\* main has neither returned nor aborted
HRunning == outcome = "running" /\ hslot <= MaxHSlot

\* where main is in its loops, and whether it runs
hpos == <<hslot, phase, turn, outcome>>

Phases == {"propose", "distribute", "vote", "broadcast", "fast_confirm", "merge", "check"}

\* the process executes its next step: every step of HNext is one and moves
\* hpos, and one is possible exactly as long as main has neither returned
\* nor aborted
HExecute ==
    /\ HRunning
    /\ hslot' \in {hslot, hslot + 1}
    /\ phase' \in Phases
    /\ turn' \in {0, turn, turn + 1}
    /\ outcome' \in {"running", "panic", "overflow", "hang"}

\* main.rs:20-21: the loop over the slots keeps running to its end unless
\* the process aborts
SpecHFair == SpecH /\ WF_hpos(HExecute)

\* ------------------------------------------------------------------------
\* Relations between views used by the properties
\* ------------------------------------------------------------------------
\* A view is well formed when the genesis block is in it, every block is
\* stored under its own hash and the parent chain of every other block ends
\* at genesis inside the view.
WellFormed(view) ==
    /\ GENESIS_HASH \in DOMAIN view.blocks
    /\ view.blocks[GENESIS_HASH] = genesis
    /\ \A h \in DOMAIN view.blocks :
          /\ view.blocks[h].hash = h
          /\ h # GENESIS_HASH =>
                 is_ancestor_of(genesis, view.blocks[h], view) = Ok(TRUE)

\* V2 holds every block and every vote of V1 (votes are only ever appended)
Subview(V1, V2) ==
    /\ \A h \in DOMAIN V1.blocks : h \in DOMAIN V2.blocks /\ V2.blocks[h] = V1.blocks[h]
    /\ Len(V1.votes) <= Len(V2.votes)
    /\ \A i \in DOMAIN V1.votes : V2.votes[i] = V1.votes[i]

\* ------------------------------------------------------------------------
\* Properties of the justification runs
\* ------------------------------------------------------------------------
\* the view that the evaluation recorded in jres was made on
EvaluatedView ==
    View([h \in jres.hashes |-> jview.blocks[h]], SubSeq(jview.votes, 1, jres.votes))

\* the distinct validators with a vote  genesis -> checkpoint  in the view
LinkVoters(view, checkpoint) ==
    {view.votes[i].validator_id :
        i \in {j \in DOMAIN view.votes :
                  /\ view.votes[j].source = GenesisCheckpoint
                  /\ view.votes[j].target = checkpoint}}

\* the view holds no vote for the checkpoint's slot besides those links
OnlyLinkVotes(view, checkpoint) ==
    \A i \in DOMAIN view.votes :
        view.votes[i].target.slot = checkpoint.slot =>
            /\ view.votes[i].source = GenesisCheckpoint
            /\ view.votes[i].target = checkpoint

\* C1: in a well-formed view, for a checkpoint (B, s) whose block descends
\* from genesis and an evaluation from an empty cache that returns: more than
\* floor(2N/3) distinct validators with a vote genesis -> (B, s) make
\* is_justified((B, s)) true; at most floor(2N/3) of them, with no other
\* vote for slot s in the view, make it false.
C1_SupermajorityLinkJustifies ==
    (/\ jres # <<>>
     /\ jres.out.status = "ok"
     /\ WellFormed(EvaluatedView)
     /\ jres.checkpoint.block_hash \in DOMAIN EvaluatedView.blocks
     /\ jres.checkpoint.block_hash # GENESIS_HASH)
    => LET voters == Cardinality(LinkVoters(EvaluatedView, jres.checkpoint)) IN
       /\ voters > Threshold => jres.out.res
       /\ (voters <= Threshold /\ OnlyLinkVotes(EvaluatedView, jres.checkpoint))
              => ~jres.out.res

\* C2: monotonicity.  Once is_justified(C, V) returned true from an empty
\* cache, is_justified(C, V') returns true from an empty cache for every
\* well-formed V' that holds the blocks and votes of V.
C2_JustificationMonotone ==
    (/\ jres # <<>>
     /\ jres.out.status = "ok" /\ jres.out.res
     /\ WellFormed(EvaluatedView) /\ WellFormed(jview)
     /\ Subview(EvaluatedView, jview))
    => \A later \in {is_justified(jres.checkpoint, jview, EmptyMap, {})} :
           later.status = "ok" /\ later.res

\* ------------------------------------------------------------------------
\* Properties of the node runs
\* ------------------------------------------------------------------------
\* the step is a call of the operation (the node before and after it are
\* related by the operation, and the call returned)
Called == process = "running" /\ process' = "running" /\ ops' = ops + 1

IsReceiveMessage ==
    /\ Called
    /\ \/ \E b \in RBlocks : node' = receive_message(node, <<b>>, <<>>)
       \/ \E v \in RVotes : node' = receive_message(node, <<>>, <<v>>)
       \/ \E votes \in Broadcasts : node' = receive_votes(node, votes, 1, Len(votes))

IsPropose ==
    Called /\ \E current_slot \in Slots : \E out \in propose(node, current_slot) :
                  out.status = "ok" /\ node' = out.node

IsOnReceiveProposal ==
    Called /\ \E proposal \in RProposals : node' = on_receive_proposal(node, proposal)

IsVote ==
    Called /\ \E current_slot \in Slots : \E out \in vote(node, current_slot) :
                  out.status = "ok" /\ node' = out.node

IsFastConfirm(current_slot) == Called /\ node' \in fast_confirm(node, current_slot)

IsMerge == Called /\ node' = merge(node)

\* C3: the genesis checkpoint is justified in the view and in the frozen
\* view of every reachable node, with the cache the node has then, and is
\* the greatest justified checkpoint of a view without votes.
C3_GenesisAlwaysJustified ==
    \A v \in {node.view, node.frozen_view} :
        /\ \A j \in {is_justified(GenesisCheckpoint, v, node.justification_cache, {})} :
               j.status = "ok" /\ j.res
        /\ v.votes = <<>> =>
               \A g \in {greatest_justified_checkpoint(v, node.justification_cache)} :
                   g.status = "ok" /\ g.res = GenesisCheckpoint

\* a node whose cache holds a verdict on another checkpoint, with votes in
\* its view besides
C3_Witness ==
    /\ process = "running"
    /\ node.view.votes # <<>>
    /\ \E cp \in DOMAIN node.justification_cache :
           cp # GenesisCheckpoint /\ ~node.justification_cache[cp]

\* the distinct validators with a vote of the slot for the head in the view
Support(view, current_slot, chain_head_hash) ==
    Cardinality({view.votes[i].validator_id :
                    i \in {j \in DOMAIN view.votes :
                              /\ view.votes[j].slot = current_slot
                              /\ view.votes[j].chain_head_hash = chain_head_hash}})

Heads(view) == {view.votes[i].chain_head_hash : i \in DOMAIN view.votes}

\* C7: fast_confirm(slot) sets ch_ava to a head whose support among the
\* slot's votes, counted as distinct validators, exceeds floor(2N/3), and
\* leaves ch_ava unchanged when no head has such support.
C7_FastConfirmIffSupermajority ==
    [][\A current_slot \in Slots :
          IsFastConfirm(current_slot) =>
              IF \E h \in Heads(node.view) :
                     Support(node.view, current_slot, h) > FastThreshold
              THEN Support(node.view, current_slot, node'.ch_ava) > FastThreshold
              ELSE node'.ch_ava = node.ch_ava]_vars

\* a vote of the view names, as source, target or chain head, a block the
\* view does not hold, or a block of the view has a parent it does not hold
NamesAbsentBlock(view) ==
    \/ \E i \in DOMAIN view.votes :
           {view.votes[i].source.block_hash, view.votes[i].target.block_hash,
            view.votes[i].chain_head_hash} \ DOMAIN view.blocks # {}
    \/ \E h \in DOMAIN view.blocks :
           view.blocks[h].parent_hash \notin DOMAIN view.blocks \cup {NULL_HASH}

\* C8: a node to which a vote or a block naming an absent block was
\* delivered, by receive_message or by on_receive_proposal, never aborts in
\* a later operation.
C8_NoAbort ==
    (NamesAbsentBlock(node.view) \/ NamesAbsentBlock(node.frozen_view))
        => process = "running"

\* C9 as stated: merge is the only operation that changes frozen_view.
C9_FrozenOnlyAtMerge ==
    [][node'.frozen_view # node.frozen_view => IsMerge]_vars

\* C9, amended: receive_message, propose, vote and fast_confirm leave
\* frozen_view unchanged; merge and on_receive_proposal are the only
\* operations that change it.  (A step that changes frozen_view is a merge
\* or an on_receive_proposal, and is not a call of one of the other four.)
C9_FrozenViewFrame ==
    [][\/ node'.frozen_view = node.frozen_view
       \/ /\ IsMerge \/ IsOnReceiveProposal
          /\ ~(\/ IsReceiveMessage
                \/ IsPropose
                \/ IsVote
                \/ \E current_slot \in Slots : IsFastConfirm(current_slot))]_vars

\* the node has proposed and received votes, and its frozen view holds what
\* a proposal brought and differs from the view
C9_Witness ==
    /\ process = "running"
    /\ block_hash_of(1, 0) \in DOMAIN node.view.blocks
    /\ node.view.votes # <<>>
    /\ node.frozen_view.votes # <<>>
    /\ "R1" \in DOMAIN node.frozen_view.blocks
    /\ node.frozen_view # node.view

\* C10: after every operation, every block of the view is still in it with
\* the same content and every vote of the view is still in it.
C10_ViewOnlyGrows == [][Subview(node.view, node'.view)]_vars

\* ------------------------------------------------------------------------
\* Properties of the fork-choice runs
\* ------------------------------------------------------------------------
\* C4: on a well-formed view, for every start_hash of the view and every
\* current_slot, rlmd_ghost_fork_choice has a result, every result is a
\* return (no abort, no endless loop) and the hash returned is a block of
\* the view.
C4_ForkChoiceTerminatesInView ==
    /\ WellFormed(fview)
    /\ \A start_hash \in DOMAIN fview.blocks : \A current_slot \in FSlots :
           rlmd_ghost_fork_choice(fview, start_hash, current_slot) # {}
    /\ fres # <<>> =>
           /\ fres.out.status = "ok"
           /\ fres.out.hash \in DOMAIN fview.blocks

\* a fork at genesis with votes on both sides, one of them for a block the
\* view does not hold, and a head below the start block
C4_Witness ==
    /\ fres # <<>>
    /\ fres.start_hash = GENESIS_HASH
    /\ fres.out.hash = "A2"
    /\ {"A1", "A2"} \subseteq DOMAIN fview.blocks
    /\ "A3" \notin DOMAIN fview.blocks
    /\ \E i \in DOMAIN fview.votes : fview.votes[i].chain_head_hash = "A3"
    /\ DOMAIN fres.filtered # {}

\* the votes of a validator that the call recorded in fres did not skip
LiveVotes(id) ==
    {i \in DOMAIN fview.votes :
        /\ fview.votes[i].validator_id = id
        /\ fview.votes[i].slot >= saturating_sub(fres.current_slot, ETA)}

Voters == {fview.votes[i].validator_id : i \in DOMAIN fview.votes}

\* the live votes of a validator at its greatest live slot
TopVotes(id) ==
    {i \in LiveVotes(id) : \A j \in LiveVotes(id) : fview.votes[j].slot <= fview.votes[i].slot}

EquivocatesAtTop(id) ==
    \E i, j \in TopVotes(id) :
        fview.votes[i].chain_head_hash # fview.votes[j].chain_head_hash

\* C5: a validator with two non-expired votes at its greatest vote slot for
\* different chain heads is not in the output of filter_rlmd_votes, in
\* whatever order its votes arrived.
C5_EquivocatorsFiltered ==
    fres # <<>> =>
        \A id \in Voters : EquivocatesAtTop(id) => id \notin DOMAIN fres.filtered

\* validator 0 equivocates in its greatest slot and is left out, while
\* validator 1 is kept
C5_Witness ==
    /\ fres # <<>>
    /\ EquivocatesAtTop(0)
    /\ 0 \notin DOMAIN fres.filtered
    /\ 1 \in DOMAIN fres.filtered

\* C6: filter_rlmd_votes is its reference definition: no expired vote is in
\* the output; a validator is in the output exactly when it has a
\* non-expired vote and its non-expired votes of its greatest slot all name
\* one chain head; the vote kept is one of that slot.
C6_FilterIsReference ==
    fres # <<>> =>
        /\ \A id \in DOMAIN fres.filtered :
               fres.filtered[id].slot >= saturating_sub(fres.current_slot, ETA)
        /\ DOMAIN fres.filtered =
               {id \in Voters : LiveVotes(id) # {} /\ ~EquivocatesAtTop(id)}
        /\ \A id \in DOMAIN fres.filtered :
               \E i \in TopVotes(id) : fres.filtered[id] = fview.votes[i]

\* ------------------------------------------------------------------------
\* Properties of the node runs: heads, prefixes and votes
\* ------------------------------------------------------------------------
\* C11: ch_fin is the genesis hash in every state a node can reach, also
\* after fast_confirm has moved ch_ava.
C11_ChFinNeverAdvances == node.ch_fin = GENESIS_HASH

\* fast_confirm has moved ch_ava away from genesis
C11_Witness ==
    /\ process = "running"
    /\ node.ch_ava = "R1"
    /\ node.ch_fin = GENESIS_HASH

\* the block d parent steps above the block h of the view
RECURSIVE Up(_, _, _)
Up(view, h, d) == IF d = 0 THEN h ELSE Up(view, view.blocks[h].parent_hash, d - 1)

\* the number of parent steps from the block h to genesis
RECURSIVE Depth(_, _)
Depth(view, h) ==
    IF view.blocks[h].parent_hash = NULL_HASH THEN 0
    ELSE 1 + Depth(view, view.blocks[h].parent_hash)

\* the nearest block on the ancestor chain of h, h included, whose slot is
\* at most the slot of h minus k, saturating at 0
NearestDeep(view, h, k) ==
    LET deep == {d \in 0..Depth(view, h) :
                    view.blocks[Up(view, h, d)].slot
                        <= saturating_sub(view.blocks[h].slot, k)}
    IN  Up(view, h, CHOOSE d \in deep : \A e \in deep : d <= e)

\* C12: in a well-formed frozen_view, for every block taken as the head,
\* get_k_deep_prefix returns the nearest block of the head's ancestor chain
\* (the head included) whose slot is at most head.slot - KAPPA, saturating
\* at 0; for the slot-5 head of the chain with one block per slot 1..5 this
\* is a block of slot at most 1.
C12_KDeepPrefix ==
    /\ WellFormed(node.frozen_view)
    /\ \A h \in DOMAIN node.frozen_view.blocks :
           get_k_deep_prefix(node, node.frozen_view.blocks[h], KAPPA)
               = [status |-> "ok", hash |-> NearestDeep(node.frozen_view, h, KAPPA)]
    /\ "L5" \in DOMAIN node.frozen_view.blocks =>
           \A prefix \in {get_k_deep_prefix(node, L5, KAPPA)} :
               node.frozen_view.blocks[prefix.hash].slot <= 1

\* the node holds the chain of slots 1..5 and a vote on its slot-5 head has
\* moved ch_ava to the prefix, the block of slot 1
C12_Witness ==
    /\ process = "running"
    /\ {"L1", "L2", "L3", "L4", "L5"} \subseteq DOMAIN node.frozen_view.blocks
    /\ "L6" \notin DOMAIN node.frozen_view.blocks
    /\ node.ch_ava = "L1"

\* ------------------------------------------------------------------------
\* Properties of the cache runs
\* ------------------------------------------------------------------------
\* the postcondition of vote(current_slot) called on self with outcome out,
\* where gjc is the greatest justified checkpoint of frozen_view, head_hash
\* the fork-choice head and prefix its k-deep prefix
VotePost(self, current_slot, out, gjc, head_hash, prefix) ==
    /\ out.node.ch_ava \in {self.ch_ava, prefix, gjc.block_hash}
    /\ \A h \in {self.ch_ava, prefix, gjc.block_hash} :
          /\ h \in DOMAIN self.frozen_view.blocks
          /\ self.frozen_view.blocks[out.node.ch_ava].slot
                 >= self.frozen_view.blocks[h].slot
    /\ out.ret = Vote(head_hash, gjc, Checkpoint(out.node.ch_ava, current_slot),
                      current_slot, self.validator_id)
    /\ out.node.view = self.view
    /\ out.node.frozen_view = self.frozen_view

\* the postcondition holds for one of the heads the fork choice can return
\* from the block of gjc
VotePostFrom(self, current_slot, out, gjc) ==
    /\ gjc.status = "ok"
    /\ \E head \in rlmd_ghost_fork_choice(self.frozen_view, gjc.res.block_hash,
                                          current_slot) :
          /\ head.status = "ok"
          /\ head.hash \in DOMAIN self.frozen_view.blocks
          /\ \E prefix \in {get_k_deep_prefix(self,
                                self.frozen_view.blocks[head.hash], KAPPA)} :
                /\ prefix.status = "ok"
                /\ VotePost(self, current_slot, out, gjc.res, head.hash, prefix.hash)

\* C13: whenever vote(slot) returns, the new ch_ava is one of the previous
\* ch_ava, the k-deep prefix of the fork-choice head and the block of the
\* greatest justified checkpoint of frozen_view, with a slot at least the
\* slot of each of the three; the returned vote has the fork-choice head
\* over frozen_view as chain head, the greatest justified checkpoint of
\* frozen_view as source, (new ch_ava, slot) as target, the slot and the
\* node's id; view and frozen_view are unchanged.
C13_VotePostcondition ==
    process = "running" =>
        \A current_slot \in VSlots : \A out \in vote(node, current_slot) :
            out.status = "ok" =>
                VotePostFrom(node, current_slot, out,
                    greatest_justified_checkpoint(node.frozen_view, EmptyMap))

\* the checkpoints whose justification propose or vote looks up when it
\* queries the view: the sources of its votes
Queried(view) == {view.votes[i].source : i \in DOMAIN view.votes}

\* every result the cache holds for a checkpoint queried in the view is the
\* one is_justified computes over the view with an empty cache
CacheAgrees(justification_cache, view) ==
    \A checkpoint \in Queried(view) \cap DOMAIN justification_cache :
        \A fresh \in {is_justified(checkpoint, view, EmptyMap, {})} :
            fresh.status = "ok" => justification_cache[checkpoint] = fresh.res

\* C17: in every state a run of the six operations reaches, a justification
\* result that propose would take from the cache equals is_justified with an
\* empty cache over view, and one that vote would take from it equals
\* is_justified with an empty cache over frozen_view.
C17_CacheCoherent ==
    process = "running" =>
        /\ CacheAgrees(node.justification_cache, node.view)
        /\ CacheAgrees(node.justification_cache, node.frozen_view)

\* ------------------------------------------------------------------------
\* Properties of the fork-choice runs: the walk and its ties
\* ------------------------------------------------------------------------
\* block h is the block c of the view or a descendant of it
InSubtree(view, c, h) == \E d \in 0..Depth(view, h) : Up(view, h, d) = c

\* the number of filtered votes whose chain head is a block of the view in
\* the subtree of c
SubtreeWeight(view, filtered_votes, c) ==
    Cardinality({id \in DOMAIN filtered_votes :
        /\ filtered_votes[id].chain_head_hash \in DOMAIN view.blocks
        /\ InSubtree(view, c, filtered_votes[id].chain_head_hash)})

Siblings(view, c) ==
    {x \in DOMAIN view.blocks : view.blocks[x].parent_hash = view.blocks[c].parent_hash}

\* the block c is at least as heavy as each of its siblings
Heaviest(view, filtered_votes, c) ==
    \A x \in Siblings(view, c) :
        SubtreeWeight(view, filtered_votes, x) <= SubtreeWeight(view, filtered_votes, c)

\* C14: in a well-formed view the result of ghost has no children in the
\* view, is start_hash or a descendant of it, and every block on the path
\* from start_hash down to the result is a child whose subtree is the chain
\* head of at least as many filtered votes as each sibling's subtree, the
\* votes for blocks outside the view counting for nobody.
C14_HeaviestSubtreeWalk ==
    (fres # <<>> /\ WellFormed(fview)) =>
        /\ fres.out.status = "ok"
        /\ fres.out.hash \in DOMAIN fview.blocks
        /\ \A x \in DOMAIN fview.blocks : fview.blocks[x].parent_hash # fres.out.hash
        /\ \E d \in 0..Depth(fview, fres.out.hash) :
              /\ Up(fview, fres.out.hash, d) = fres.start_hash
              /\ \A e \in 0..(d - 1) :
                    Heaviest(fview, fres.filtered, Up(fview, fres.out.hash, e))

\* from genesis the walk went through A1, which carries two votes, to A3,
\* past the sibling A2, which carries none
C14_Witness ==
    /\ fres # <<>>
    /\ fres.start_hash = GENESIS_HASH
    /\ fres.out.hash = "A3"
    /\ "A2" \in DOMAIN fview.blocks
    /\ SubtreeWeight(fview, fres.filtered, "A1") = 2
    /\ SubtreeWeight(fview, fres.filtered, "A2") = 0

\* C15: two evaluations of rlmd_ghost_fork_choice on the same view, start
\* block and slot return the same head, whatever the iteration order of the
\* block map and also when sibling subtrees have equal weight.
C15_ForkChoiceDeterministic ==
    \A start_hash \in DOMAIN fview.blocks : \A current_slot \in FSlots :
        \A one, other \in rlmd_ghost_fork_choice(fview, start_hash, current_slot) :
            one = other

\* ------------------------------------------------------------------------
\* Properties of the checkpoint runs
\* ------------------------------------------------------------------------
\* the views with the blocks and the votes of the view, the late votes
\* delivered in another order
Reordered(view) ==
    {[view EXCEPT !.votes = [i \in DOMAIN view.votes |->
                                IF i \in Late(view) THEN view.votes[p[i]]
                                ELSE view.votes[i]]]
        : p \in Permutations(Late(view))}

\* C16: the greatest justified checkpoint of a view is the one of every
\* view with the same blocks and the same votes in another order, also
\* when two justified checkpoints of different blocks share the greatest
\* slot.
C16_GreatestJustifiedOrderFree ==
    jres # <<>> =>
        \A other \in Reordered(jview) :
            \A there \in {greatest_justified_checkpoint(other, EmptyMap)} :
                (jres.status = "ok" /\ there.status = "ok") => there.res = jres.res

\* ------------------------------------------------------------------------
\* Properties of the node runs: the block tree
\* ------------------------------------------------------------------------
\* the step is a call propose(current_slot) that returned
IsProposeAt(current_slot) ==
    Called /\ \E out \in propose(node, current_slot) :
                  out.status = "ok" /\ node' = out.node

\* the block propose(current_slot) has stored hangs below a block the view
\* held before the call, other than itself
NewBlockExtends(before, after, hash) ==
    /\ hash \in DOMAIN after.blocks
    /\ after.blocks[hash].parent_hash \in DOMAIN before.blocks
    /\ after.blocks[hash].parent_hash # hash

\* C18: a propose(slot) called on a view that is a tree rooted at genesis
\* leaves a tree rooted at genesis, whatever was called before (an earlier
\* propose for the slot, the receipt of a block with the new block's hash),
\* and the parent of the new block is a block the view held before the
\* call, different from the new block.
C18_ProposePreservesTree ==
    [][\A current_slot \in Slots :
          (IsProposeAt(current_slot) /\ WellFormed(node.view)) =>
              /\ WellFormed(node'.view)
              /\ NewBlockExtends(node.view, node'.view,
                                 block_hash_of(current_slot, node.validator_id))]_vars

\* ------------------------------------------------------------------------
\* Properties of the honest runs
\* ------------------------------------------------------------------------
\* C19: in the honest run whose number of nodes is the validator count of
\* the thresholds, the checkpoint (b, 1) of the block b proposed in slot 1
\* is eventually found justified in node 0's view by the check that ends
\* slot 3, so some non-genesis checkpoint is justified.
C19_JustifiedWithinThreeSlots ==
    (Cardinality(DOMAIN nodes) = n_justification) =>
        <>(Checkpoint(block_hash_of(1, 0), 1) \in reported)

\* C20: an honest run never aborts on a block hash absent from the view an
\* operation queries, whatever the number of nodes, and at each vote the
\* ch_ava of the voting node is a block of its frozen_view.
C20_HonestRunsFindEveryBlock ==
    /\ outcome = "running"
    /\ phase = "vote" => nodes[turn].ch_ava \in DOMAIN nodes[turn].frozen_view.blocks

\* the block the proposal of the slot carries as its chain head
ProposedBlock(proposal) == proposal.view.blocks[proposal.chain_head_hash]

\* C21: in an honest run the block proposed in slot s+1 has the block
\* proposed in slot s, by the proposer of slot s, as its parent, for every
\* s >= 1.
C21_HonestProposalsFormOneChain ==
    (pending # <<>> /\ pending.slot >= 2) =>
        ProposedBlock(pending).parent_hash
            = block_hash_of(pending.slot - 1,
                            (pending.slot - 2) % Cardinality(DOMAIN nodes))

\* ------------------------------------------------------------------------
\* Properties of the prefix runs: the votes
\* ------------------------------------------------------------------------
\* block a of the view is the block h of the view or an ancestor of it
AncestorOrEqual(view, a, h) ==
    /\ a \in DOMAIN view.blocks
    /\ h \in DOMAIN view.blocks
    /\ InSubtree(view, a, h)

\* source <= target <= chain head in the ancestry of the view, and the
\* source is not of a later slot than the target
WellFormedLink(view, link) ==
    /\ AncestorOrEqual(view, link.source.block_hash, link.target.block_hash)
    /\ AncestorOrEqual(view, link.target.block_hash, link.chain_head_hash)
    /\ link.source.slot <= link.target.slot

\* C22: in every state a node reaches, a vote(slot) that returns gives a
\* vote whose source block is its target block or an ancestor of it, whose
\* target block is its chain head or an ancestor of it, in frozen_view, and
\* whose source slot is at most its target slot.
C22_VotesAreLinks ==
    (process = "running" /\ WellFormed(node.frozen_view)) =>
        \A current_slot \in KSlots : \A out \in vote(node, current_slot) :
            out.status = "ok" => WellFormedLink(node.frozen_view, out.ret)

====
